---- MODULE Spec2Model ----
(***************************************************************************)
(* The deferred-value engine of src/promise.js (class Promise) as a stack  *)
(* machine: every method call is a frame on the calling thread's stack and *)
(* every statement that reads or writes an instance field is one step.     *)
(* One thread gives the engine's single-threaded behaviour (Spec); two     *)
(* threads give the producer/consumer use made of it by src/fetch.js,      *)
(* where request() settles the instance from a new Thread (SpecMT).        *)
(***************************************************************************)
EXTENDS Integers, Sequences, FiniteSets, TLC

\* ---------------------------------------------------------------- bounds
MaxInst == 5        \* instances the threads' own code can construct in one behaviour
MaxInputs == 2      \* length of the sequence handed to all / race
MaxCalls == 3       \* top-level calls made by the threads' own code

\* ------------------------------------------------------------- constants
Pending == 0
Fulfilled == 1
Rejected == 2

Threads == {1, 2}
\* all / race construct two more instances for each input (then, catch)
Capacity == MaxInst + 2 * MaxInputs
Insts == 1 .. Capacity

\* this.value / this.reason: null, or the args array of the settling call
NoPayload == <<>>
Some(a) == <<a>>

\* the payloads the threads' own code settles with (one single, one multi-value)
Payloads == {<<1>>, <<2, 3>>}

\* error objects are the negative numbers
ErrUser == 0 - 1        \* the error a user callback or executor throws
TypeErr == 0 - 2        \* spreading null: "...value" with value === null
ErrNoUrl == 0 - 4       \* "No url parameter specified in #request"
ErrIO == 0 - 5          \* the error the worker of request catches
Content == 5            \* the response the worker of request resolves with

\* callbacks handed to then: absent, a user function, or the bound
\* _resolve / _reject of an instance (result.then(resolve, reject))
None == [t |-> "none", p |-> 0]
User == [t |-> "user", p |-> 0]
Res(p) == [t |-> "res", p |-> p]
Rej(p) == [t |-> "rej", p |-> p]
\* the arrow function all hands to then for the input at index idx (lines 128-133)
AllCb(a, idx) == [t |-> "all", p |-> a, i |-> idx]

\* completion of the last call a thread returned from
Undef == [t |-> "val", v |-> 0]
RetVal(v) == [t |-> "val", v |-> v]
Thrown(e) == [t |-> "throw", v |-> e]
RetPromise(p) == [t |-> "promise", v |-> p]

\* constructor, lines 7-10
NewInst == [state |-> Pending, value |-> NoPayload, reason |-> NoPayload,
            handlers |-> <<>>]

VARIABLES
    inst,       \* inst[p]: the fields state, value, reason, handlers of instance p
    nInst,      \* instances constructed so far: 1 .. nInst
    roots,      \* instances whose resolve/reject the executor handed to a producer
    stack,      \* stack[t]: the call stack of thread t
    ret,        \* ret[t]: completion of the call thread t returned from last
    budget,     \* budget[t]: top-level calls thread t may still make
    menu,       \* what the user callbacks of this program may do when called
    reg,        \* history: reg[d]: the then call that constructed d
    log,        \* history: the handler invocations, in order
    passes,     \* history: passes[p]: forEach passes started over p.handlers
    calls,      \* history: calls[p]: the resolve/reject calls made on p, in order
    writes,     \* history: writes[p]: the states written to p.state, in order
    outcome,    \* history: outcome[d]: what the callback invoked for d did
    order,      \* history: the instances in the order their state was written
    promises,   \* promises[a]: the argument of the all / race call that made a
    result,     \* result[a]: the array "result" of the executor of all, instance a
    completed,  \* completed[a]: the counter "completed" of the executor of all
    started,    \* history: started[p]: the Threads request() started for instance p
    direct      \* history: direct[k]: the callbacks the k-th direct call of
                \* request() has invoked, in order

vars == <<inst, nInst, roots, stack, ret, budget, menu, reg, log, passes, calls,
          writes, outcome, order, promises, result, completed, started, direct>>

\* a stack frame; every frame has every field
Frame0 == [k |-> "none", pc |-> "", p |-> 0, st |-> 0, args |-> <<>>, nul |-> FALSE,
           i |-> 0, n |-> 0, onF |-> None, onR |-> None, d2 |-> 0, by |-> "",
           ex |-> ""]

\* reg[d]: how instance d was constructed: by p.then(onF, onR), which read the
\* state "at" at line 69 (-1: not yet) and was called from inside another call
\* while a forEach pass over p was running (inPass) or not; or by new Promise with
\* the executor ex
NoReg == [p |-> 0, at |-> 0 - 1, onF |-> None, onR |-> None, inPass |-> FALSE,
          ex |-> "defer"]
Absent == [t |-> "absent", v |-> 0]
NoOutcome == [t |-> "none", v |-> 0]

Top(t) == stack[t][Len(stack[t])]
Running(t, k, pc) == /\ stack[t] # <<>>
                     /\ Top(t).k = k
                     /\ Top(t).pc = pc
\* the stack with its top frame replaced by f, and then g pushed on it
Goto(t, f) == [stack EXCEPT ![t][Len(stack[t])] = f]
GotoCall(t, f, g) == [stack EXCEPT ![t] = Append([@ EXCEPT ![Len(@)] = f], g)]
Return(t) == [stack EXCEPT ![t] = SubSeq(@, 1, Len(@) - 1)]
Call(t, g) == [stack EXCEPT ![t] = Append(@, g)]

Idle == \A t \in Threads : stack[t] = <<>>

\* ------------------------------------------------------------ the frames
SettleFrame(p, st, args) ==
    [Frame0 EXCEPT !.k = "settle", !.pc = "check", !.p = p, !.st = st, !.args = args]
ThenFrame(p, onF, onR) ==
    [Frame0 EXCEPT !.k = "then", !.pc = "new", !.p = p, !.onF = onF, !.onR = onR]
\* handler.onFulfilled(v) (w = Fulfilled) or handler.onRejected(v) (w = Rejected) of
\* the handler h; v is an option: this.value may still be null
HandlerFrame(h, w, v, by) ==
    [Frame0 EXCEPT !.k = "handler", !.pc = "call", !.onF = h.onF, !.onR = h.onR,
                   !.d2 = h.d2, !.st = w, !.nul = (v = NoPayload),
                   !.args = IF v = NoPayload THEN <<>> ELSE v[1], !.by = by]
CallbackFrame(p, d2, args) ==
    [Frame0 EXCEPT !.k = "callback", !.pc = "start", !.p = p, !.d2 = d2, !.args = args]
CtorFrame(ex, args) ==
    [Frame0 EXCEPT !.k = "ctor", !.pc = "new", !.ex = ex, !.args = args]
\* request(opts, resolve, reject) for the instance p, opts.url set or not
RequestFrame(p, url) ==
    [Frame0 EXCEPT !.k = "request", !.pc = "url", !.p = p, !.nul = ~ url]
\* the body of the Thread request starts
WorkerFrame(p) == [Frame0 EXCEPT !.k = "worker", !.pc = "try", !.p = p]
\* request(opts, resolve, reject) called by the user's own code, as its k-th
\* such call, with two user functions; no instance is involved (p = 0)
DirectFrame(k, url) == [RequestFrame(0, url) EXCEPT !.n = k]
\* a call of the arrow function of lines 128-133, for the input at index idx
AllFrame(a, idx, args) ==
    [Frame0 EXCEPT !.k = "allcb", !.pc = "store", !.p = a, !.i = idx, !.args = args]

\* ------------------------------------------- _resolve / _reject, lines 20-35
\* mutant: the guard only stops a call on a Rejected instance
IsSettledRejectedOnly(s) == s = Rejected

\* line 21 / 30: the guard of "if (this.state) return"
IsSettled(s) == s # Pending

\* line 21 / 30: if (this.state) return
SettleCheck(t) ==
    /\ Running(t, "settle", "check")
    /\ LET f == Top(t) IN
        /\ calls' = [calls EXCEPT ![f.p] = Append(@, [st |-> f.st, args |-> f.args])]
        /\ IF IsSettled(inst[f.p].state)
           THEN /\ stack' = Return(t)
                /\ ret' = [ret EXCEPT ![t] = Undef]
           ELSE /\ stack' = Goto(t, [f EXCEPT !.pc = "state"])
                /\ UNCHANGED ret
    /\ UNCHANGED <<direct, order, promises, result, completed, started, menu, inst, nInst, roots, budget, reg, log, passes, writes, outcome>>

\* line 23 / 32: this.state = 1 | 2
SettleState(t) ==
    /\ Running(t, "settle", "state")
    /\ LET f == Top(t) IN
        /\ inst' = [inst EXCEPT ![f.p].state = f.st]
        /\ writes' = [writes EXCEPT ![f.p] = Append(@, f.st)]
        /\ order' = Append(order, f.p)
        /\ stack' = Goto(t, [f EXCEPT !.pc = "payload"])
    /\ UNCHANGED <<direct, promises, result, completed, started, menu, nInst, roots, ret, budget, reg, log, passes, calls, outcome>>

\* line 24 / 33: this.value = args | this.reason = args
SettlePayload(t) ==
    /\ Running(t, "settle", "payload")
    /\ LET f == Top(t) IN
        /\ inst' = IF f.st = Fulfilled
                   THEN [inst EXCEPT ![f.p].value = Some(f.args)]
                   ELSE [inst EXCEPT ![f.p].reason = Some(f.args)]
        /\ stack' = Goto(t, [f EXCEPT !.pc = "forEach"])
    /\ UNCHANGED <<direct, order, promises, result, completed, started, menu, nInst, roots, ret, budget, reg, log, passes, calls, writes, outcome>>

\* line 25 / 34: this.handlers.forEach(...): the length is read once, when the
\* pass starts; elements appended later are not visited
SettleForEach(t) ==
    /\ Running(t, "settle", "forEach")
    /\ LET f == Top(t) IN
        /\ passes' = [passes EXCEPT ![f.p] = @ + 1]
        /\ stack' = Goto(t, [f EXCEPT !.pc = "iter", !.i = 1,
                                      !.n = Len(inst[f.p].handlers)])
    /\ UNCHANGED <<direct, order, promises, result, completed, started, menu, inst, nInst, roots, ret, budget, reg, log, calls, writes, outcome>>

\* mutant: the pass runs from the last handler to the first
PassOrderReversed(hs, i) == hs[Len(hs) + 1 - i]

\* the handler the pass visits at index i (the order of forEach)
PassOrder(hs, i) == hs[i]

\* line 25 / 34: (it) => it.onFulfilled(args) | it.onRejected(args), index by index
SettleIter(t) ==
    /\ Running(t, "settle", "iter")
    /\ LET f == Top(t) IN
        /\ IF f.i > f.n
           THEN /\ stack' = Return(t)
                /\ ret' = [ret EXCEPT ![t] = Undef]
           ELSE /\ stack' = GotoCall(t, [f EXCEPT !.i = f.i + 1],
                        HandlerFrame(PassOrder(inst[f.p].handlers, f.i), f.st,
                                     Some(f.args), "pass"))
                /\ UNCHANGED ret
    /\ UNCHANGED <<direct, order, promises, result, completed, started, menu, inst, nInst, roots, budget, reg, log, passes, calls, writes, outcome>>

\* thread t is inside a forEach pass over the handlers of p
InPass(t, p) ==
    \E i \in DOMAIN stack[t] :
        stack[t][i].k = "settle" /\ stack[t][i].pc = "iter" /\ stack[t][i].p = p

\* ------------------------------------------------------- then, lines 44-81
\* line 45: new Promise(...): the derived instance, lines 7-10
ThenNew(t) ==
    /\ Running(t, "then", "new")
    /\ nInst < Capacity
    /\ LET f == Top(t)
           d == nInst + 1 IN
        /\ nInst' = d
        /\ inst' = [inst EXCEPT ![d] = NewInst]
        /\ reg' = [reg EXCEPT ![d] = [p |-> f.p, at |-> 0 - 1, onF |-> f.onF,
                                       onR |-> f.onR, inPass |-> InPass(t, f.p),
                                       ex |-> "then"]]
        /\ stack' = Goto(t, [f EXCEPT !.pc = "switch", !.d2 = d])
    /\ UNCHANGED <<direct, order, promises, result, completed, started, menu, roots, ret, budget, log, passes, calls, writes, outcome>>

\* mutant: the switch stores the handler whatever the state
ThenCaseNoLate(s) == "push"

\* mutant: case 1 is missing, a Fulfilled instance stores the handler
ThenCaseRejectedOnly(s) == IF s = Rejected THEN "case2" ELSE "push"

\* lines 69-78: the branch switch (this.state) takes
ThenCase(s) == CASE s = Fulfilled -> "case1"
                 [] s = Rejected -> "case2"
                 [] OTHER -> "push"

\* line 69: switch (this.state): the state is read here, once
ThenSwitch(t) ==
    /\ Running(t, "then", "switch")
    /\ LET f == Top(t) IN
        /\ reg' = [reg EXCEPT ![f.d2].at = inst[f.p].state]
        /\ stack' = Goto(t, [f EXCEPT !.pc = ThenCase(inst[f.p].state)])
    /\ UNCHANGED <<direct, order, promises, result, completed, started, menu, inst, nInst, roots, ret, budget, log, passes, calls, writes, outcome>>

\* lines 46-67: the handler object of this then call
HandlerOf(f) == [onF |-> f.onF, onR |-> f.onR, d2 |-> f.d2]

\* mutant: the late call passes the other field
LatePayloadSwapped(p, w) == IF w = Fulfilled THEN inst[p].reason ELSE inst[p].value

\* line 71 / 74: the argument of the call: this.value | this.reason
LatePayload(p, w) == IF w = Fulfilled THEN inst[p].value ELSE inst[p].reason

\* line 71: handler.onFulfilled(this.value): this.value is read here
ThenFulfilled(t) ==
    /\ Running(t, "then", "case1")
    /\ LET f == Top(t) IN
        stack' = GotoCall(t, [f EXCEPT !.pc = "ret"],
                     HandlerFrame(HandlerOf(f), Fulfilled, LatePayload(f.p, Fulfilled),
                                  "attach"))
    /\ UNCHANGED <<direct, order, promises, result, completed, started, menu, inst, nInst, roots, ret, budget, reg, log, passes, calls, writes, outcome>>

\* line 74: handler.onRejected(this.reason): this.reason is read here
ThenRejected(t) ==
    /\ Running(t, "then", "case2")
    /\ LET f == Top(t) IN
        stack' = GotoCall(t, [f EXCEPT !.pc = "ret"],
                     HandlerFrame(HandlerOf(f), Rejected, LatePayload(f.p, Rejected),
                                  "attach"))
    /\ UNCHANGED <<direct, order, promises, result, completed, started, menu, inst, nInst, roots, ret, budget, reg, log, passes, calls, writes, outcome>>

\* line 77: this.handlers.push(handler)
ThenPush(t) ==
    /\ Running(t, "then", "push")
    /\ LET f == Top(t) IN
        /\ inst' = [inst EXCEPT ![f.p].handlers = Append(@, HandlerOf(f))]
        /\ stack' = Goto(t, [f EXCEPT !.pc = "ret"])
    /\ UNCHANGED <<direct, order, promises, result, completed, started, menu, nInst, roots, ret, budget, reg, log, passes, calls, writes, outcome>>

\* line 45: return new Promise(...): the executor never throws (each handler
\* body is its own try/catch), so the constructor's catch (line 15) is not taken
ThenReturn(t) ==
    /\ Running(t, "then", "ret")
    /\ stack' = Return(t)
    /\ ret' = [ret EXCEPT ![t] = RetPromise(Top(t).d2)]
    /\ UNCHANGED <<direct, order, promises, result, completed, started, menu, inst, nInst, roots, budget, reg, log, passes, calls, writes, outcome>>

\* ------------------------- handler.onFulfilled / onRejected, lines 47-66
\* the callback the wrapper calls: onFulfilled (line 49) or onRejected (line 59)
CallbackOf(f) == IF f.st = Fulfilled THEN f.onF ELSE f.onR

\* the log entry of one invocation of a handler's wrapper
Invocation(f) ==
    [d |-> f.d2, w |-> f.st, v |-> IF f.nul THEN NoPayload ELSE Some(f.args),
     by |-> f.by, cb |-> CallbackOf(f).t]

\* line 49 / 59: const result = onFulfilled?.call(null, ...value)
\* an absent callback short-circuits to undefined; spreading null throws
HandlerCall(t) ==
    /\ Running(t, "handler", "call")
    /\ LET f == Top(t)
           cb == CallbackOf(f)
           g == [f EXCEPT !.pc = "after"] IN
        /\ log' = Append(log, Invocation(f))
        /\ CASE cb.t = "none" ->
                  /\ stack' = Goto(t, g)
                  /\ ret' = [ret EXCEPT ![t] = Absent]
             [] cb.t # "none" /\ f.nul ->
                  /\ stack' = Goto(t, g)
                  /\ ret' = [ret EXCEPT ![t] = Thrown(TypeErr)]
             [] cb.t = "user" /\ ~f.nul ->
                  /\ stack' = GotoCall(t, g, CallbackFrame(reg[f.d2].p, f.d2, f.args))
                  /\ UNCHANGED ret
             [] cb.t = "res" /\ ~f.nul ->
                  /\ stack' = GotoCall(t, g, SettleFrame(cb.p, Fulfilled, f.args))
                  /\ UNCHANGED ret
             [] cb.t = "rej" /\ ~f.nul ->
                  /\ stack' = GotoCall(t, g, SettleFrame(cb.p, Rejected, f.args))
                  /\ UNCHANGED ret
             [] cb.t = "all" /\ ~f.nul ->
                  /\ stack' = GotoCall(t, g, AllFrame(cb.p, cb.i, f.args))
                  /\ UNCHANGED ret
    /\ UNCHANGED <<direct, order, promises, result, completed, started, menu, inst, nInst, roots, budget, reg, passes, calls, writes, outcome>>

\* mutant: the derived instance is settled with what the callback returned
PassThroughResult(w, args, r) == [st |-> w, args |-> <<r.v>>]

\* mutant: a rejection whose callback returned normally is turned into a
\* fulfilment
PassThroughRecovers(w, args, r) == [st |-> Fulfilled, args |-> args]

\* line 52 / 62: resolve.call(null, ...value) | reject.call(null, ...reason):
\* the payload the derived instance is settled with when the callback returned
\* r, which is no instance
PassThrough(w, args, r) == [st |-> w, args |-> args]

\* mutant: only the fulfilment of the returned instance is chained
ChainToFulfilOnly(r, d2) == ThenFrame(r, Res(d2), None)

\* mutant: the catch block resolves with the error
CaughtResolves(err, d2) == SettleFrame(d2, Fulfilled, <<err>>)

\* line 50 / 60: return result.then(resolve, reject)
ChainTo(r, d2) == ThenFrame(r, Res(d2), Rej(d2))

\* line 54 / 64: catch (err) { reject(err) }
Caught(err, d2) == SettleFrame(d2, Rejected, <<err>>)

\* lines 50-55 / 60-65: what the wrapper does with the callback's completion r
HandlerAfter(t) ==
    /\ Running(t, "handler", "after")
    /\ LET f == Top(t)
           r == ret[t]
           g == [f EXCEPT !.pc = "done"]
           s == PassThrough(f.st, f.args, r) IN
        /\ outcome' = [outcome EXCEPT ![f.d2] = r]
        /\ stack' =
             CASE r.t = "throw" ->           \* line 54 / 64: reject(err)
                    GotoCall(t, g, Caught(r.v, f.d2))
               [] r.t = "promise" ->         \* line 50 / 60: result.then(resolve, reject)
                    GotoCall(t, g, ChainTo(r.v, f.d2))
               [] OTHER ->
                    IF f.nul                 \* line 52 / 62 spreads null: caught, line 54 / 64
                    THEN GotoCall(t, g, Caught(TypeErr, f.d2))
                    ELSE GotoCall(t, g, SettleFrame(f.d2, s.st, s.args))
        /\ ret' = [ret EXCEPT ![t] = Undef]     \* the completion is consumed here
    /\ UNCHANGED <<direct, order, promises, result, completed, started, menu, inst, nInst, roots, budget, reg, log, passes, calls, writes>>

\* the wrapper returns
HandlerDone(t) ==
    /\ Running(t, "handler", "done")
    /\ stack' = Return(t)
    /\ ret' = [ret EXCEPT ![t] = Undef]
    /\ UNCHANGED <<direct, order, promises, result, completed, started, menu, inst, nInst, roots, budget, reg, log, passes, calls, writes, outcome>>

\* ------------------------------------------------------ user callbacks
\* A user function handed to then is free code: what it does is chosen when it
\* is called, among the behaviours the program's menu allows. It can
\*   "undef"   return undefined
\*   "val"     return a value that is no instance
\*   "throw"   throw an error
\*   "promise" return the existing instance x
\*   "double"  return Promise.resolve(2 * v) for its calls argument v
\*   "then"    call then on the instance it is a handler of, return undefined
\*   "settle"  call the resolve / reject of that instance, return undefined
Beh0 == [k |-> "undef", v |-> 0, st |-> 0]
ReenterArgs == <<4>>
Behaviours(f) ==
    {b \in
        {Beh0, [Beh0 EXCEPT !.k = "val", !.v = 1], [Beh0 EXCEPT !.k = "throw"]}
        \cup {[Beh0 EXCEPT !.k = "promise", !.v = x] : x \in roots}
        \cup {[Beh0 EXCEPT !.k = "double"]}
        \cup {[Beh0 EXCEPT !.k = "then"]}
        \cup {[Beh0 EXCEPT !.k = "settle", !.st = st] : st \in {Fulfilled, Rejected}} :
        /\ b.k \in menu
        /\ b.k = "promise" => nInst < MaxInst       \* result.then constructs one
        /\ b.k = "double" => f.args # <<>> /\ nInst + 2 <= MaxInst
        /\ b.k = "then" => nInst < MaxInst
        /\ b.k = "settle" => f.p \in roots}

CallbackStart(t) ==
    /\ Running(t, "callback", "start")
    /\ \E b \in Behaviours(Top(t)) :
        LET f == Top(t) IN
        CASE b.k \in {"undef", "val"} ->
               /\ stack' = Return(t)
               /\ ret' = [ret EXCEPT ![t] = RetVal(b.v)]
          [] b.k = "throw" ->
               /\ stack' = Return(t)
               /\ ret' = [ret EXCEPT ![t] = Thrown(ErrUser)]
          [] b.k = "promise" ->
               /\ stack' = Return(t)
               /\ ret' = [ret EXCEPT ![t] = RetPromise(b.v)]
          [] b.k = "double" ->
               /\ stack' = GotoCall(t, [f EXCEPT !.pc = "retNew"],
                                    CtorFrame("resolve", <<2 * f.args[1]>>))
               /\ UNCHANGED ret
          [] b.k = "then" ->
               /\ stack' = GotoCall(t, [f EXCEPT !.pc = "fin"],
                                    ThenFrame(f.p, User, None))
               /\ UNCHANGED ret
          [] b.k = "settle" ->
               /\ stack' = GotoCall(t, [f EXCEPT !.pc = "fin"],
                                    SettleFrame(f.p, b.st, ReenterArgs))
               /\ UNCHANGED ret
    /\ UNCHANGED <<direct, order, promises, result, completed, started, menu, inst, nInst, roots, budget, reg, log, passes, calls, writes,
                   outcome>>

\* the user function returns after the call it made
CallbackReturn(t) ==
    /\ stack[t] # <<>>
    /\ Top(t).k = "callback"
    /\ Top(t).pc \in {"retNew", "fin"}
    /\ stack' = Return(t)
    /\ ret' = [ret EXCEPT ![t] = IF Top(t).pc = "retNew" THEN ret[t] ELSE Undef]
    /\ UNCHANGED <<direct, order, promises, result, completed, started, menu, inst, nInst, roots, budget, reg, log, passes, calls, writes, outcome>>

\* ------------------------------------------------ constructor, lines 6-17
\* the executors of the threads' own code: "defer" keeps resolve and reject for a
\* producer, "resolve" / "reject" are the static helpers (lines 99-110), and the
\* others throw, at once or after calling resolve or reject
Executors == {"defer", "resolve", "reject", "throw", "resolveThrow", "rejectThrow"}

\* lines 7-10
CtorNew(t) ==
    /\ Running(t, "ctor", "new")
    /\ nInst < Capacity
    /\ LET f == Top(t)
           d == nInst + 1 IN
        /\ nInst' = d
        /\ inst' = [inst EXCEPT ![d] = NewInst]
        /\ reg' = [reg EXCEPT ![d].ex = f.ex]
        /\ stack' = Goto(t, [f EXCEPT !.pc = "exec", !.p = d])
    /\ UNCHANGED <<direct, order, promises, result, completed, started, menu, roots, ret, budget, log, passes, calls, writes, outcome>>

\* line 13: cb(this._resolve.bind(this), this._reject.bind(this))
CtorExec(t) ==
    /\ Running(t, "ctor", "exec")
    /\ Top(t).ex \in Executors
    /\ LET f == Top(t)
           next == IF f.ex \in {"throw", "resolveThrow", "rejectThrow"}
                   THEN "catch" ELSE "ret"
           g == [f EXCEPT !.pc = next] IN
        /\ roots' = IF f.ex = "defer" THEN roots \cup {f.p} ELSE roots
        /\ stack' =
             CASE f.ex \in {"resolve", "resolveThrow"} ->
                    GotoCall(t, g, SettleFrame(f.p, Fulfilled, f.args))
               [] f.ex \in {"reject", "rejectThrow"} ->
                    GotoCall(t, g, SettleFrame(f.p, Rejected, f.args))
               [] OTHER -> Goto(t, g)
    /\ UNCHANGED <<direct, order, promises, result, completed, started, menu, inst, nInst, ret, budget, reg, log, passes, calls, writes, outcome>>

\* mutant: the constructor's catch block resolves with the error
CtorCaughtResolves(p, err) == SettleFrame(p, Fulfilled, <<err>>)

\* line 15: this._reject(err)
CtorCaught(p, err) == SettleFrame(p, Rejected, <<err>>)

\* lines 14-15: catch (err) { this._reject(err) }
CtorCatch(t) ==
    /\ Running(t, "ctor", "catch")
    /\ stack' = GotoCall(t, [Top(t) EXCEPT !.pc = "ret"], CtorCaught(Top(t).p, ErrUser))
    /\ UNCHANGED <<direct, order, promises, result, completed, started, menu, inst, nInst, roots, ret, budget, reg, log, passes, calls, writes,
                   outcome>>

\* the constructor returns the instance
CtorReturn(t) ==
    /\ Running(t, "ctor", "ret")
    /\ stack' = Return(t)
    /\ ret' = [ret EXCEPT ![t] = RetPromise(Top(t).p)]
    /\ UNCHANGED <<direct, order, promises, result, completed, started, menu, inst, nInst, roots, budget, reg, log, passes, calls, writes, outcome>>

\* ------------------------------------------- all / race, lines 119-151
\* an index of the array "result" that was never assigned (a hole)
Hole == 0 - 3
\* the parameter "value" of the arrow function called with ...args
FirstArg(args) == IF args = <<>> THEN 0 ELSE args[1]
\* r[i] = v on a JS array: the array grows to hold index i, leaving holes
SetAt(r, i, v) ==
    [j \in 1 .. (IF i > Len(r) THEN i ELSE Len(r)) |->
        IF j = i THEN v ELSE IF j <= Len(r) THEN r[j] ELSE Hole]

Combinators == {"all", "race"}

\* lines 120-122 / 146: the executor starts: let result = [], let completed = 0
ExecStart(t) ==
    /\ Running(t, "ctor", "exec")
    /\ Top(t).ex \in Combinators
    /\ LET f == Top(t) IN
        /\ promises' = [promises EXCEPT ![f.p] = f.args]
        /\ result' = [result EXCEPT ![f.p] = <<>>]
        /\ completed' = [completed EXCEPT ![f.p] = 0]
        /\ stack' = Goto(t, [f EXCEPT !.pc = "loop", !.i = 1])
    /\ UNCHANGED <<direct, order, started, menu, inst, nInst, roots, ret, budget, reg, log, passes, calls,
                   writes, outcome>>

\* lines 127-133: promise.then((value) => { ... }) for the input at index idx
AllThen(a, ps, idx) == ThenFrame(ps[idx], AllCb(a, idx), None)

\* mutant: race attaches to the last input whatever the index
RaceThenLast(r, ps, idx) == ThenFrame(ps[Len(ps)], Res(r), None)

\* line 148: promise.then(resolve)
RaceThen(r, ps, idx) == ThenFrame(ps[idx], Res(r), None)

\* line 124 / 147: the loop over promises, and the then call of its body
ExecLoop(t) ==
    /\ Running(t, "ctor", "loop")
    /\ LET f == Top(t) IN
        IF f.i > Len(f.args)
        THEN stack' = Goto(t, [f EXCEPT !.pc = "ret"])
        ELSE stack' = GotoCall(t, [f EXCEPT !.pc = "chain"],
                          IF f.ex = "all" THEN AllThen(f.p, f.args, f.i)
                                          ELSE RaceThen(f.p, f.args, f.i))
    /\ UNCHANGED <<direct, order, promises, result, completed, started, menu, inst, nInst, roots, ret,
                   budget, reg, log, passes, calls, writes, outcome>>

\* mutant: the rejection of the link is not passed on to the result
ExecChainNone(d, a) == ThenFrame(d, None, None)

\* line 134 / 148: .catch(reject) on the instance d the then call returned
ExecChain(d, a) == ThenFrame(d, None, Rej(a))

ExecCatch(t) ==
    /\ Running(t, "ctor", "chain")
    /\ LET f == Top(t) IN
        stack' = GotoCall(t, [f EXCEPT !.pc = "loop", !.i = f.i + 1],
                     ExecChain(ret[t].v, f.p))
    /\ UNCHANGED <<direct, order, promises, result, completed, started, menu, inst, nInst, roots, ret,
                   budget, reg, log, passes, calls, writes, outcome>>

\* mutant: the values are stored in the order of completion
AllSlotByCompletion(idx, done) == done + 1

\* the index of result the arrow function for input idx assigns
AllSlot(idx, done) == idx

\* line 129: result[idx] = value
AllStore(t) ==
    /\ Running(t, "allcb", "store")
    /\ LET f == Top(t) IN
        /\ result' = [result EXCEPT
                        ![f.p] = SetAt(@, AllSlot(f.i, completed[f.p]), FirstArg(f.args))]
        /\ stack' = Goto(t, [f EXCEPT !.pc = "count"])
    /\ UNCHANGED <<direct, order, promises, completed, started, menu, inst, nInst, roots, ret, budget, reg,
                   log, passes, calls, writes, outcome>>

\* line 130: completed += 1
AllCount(t) ==
    /\ Running(t, "allcb", "count")
    /\ LET f == Top(t) IN
        /\ completed' = [completed EXCEPT ![f.p] = @ + 1]
        /\ stack' = Goto(t, [f EXCEPT !.pc = "test"])
    /\ UNCHANGED <<direct, order, promises, result, started, menu, inst, nInst, roots, ret, budget, reg,
                   log, passes, calls, writes, outcome>>

\* mutant: the result is resolved as soon as one input has completed
AllCompleteAny(c, n) == c >= 1

\* line 131: completed === promises.length
AllComplete(c, n) == c = n

\* lines 131-132: if (completed === promises.length) resolve(result)
AllTest(t) ==
    /\ Running(t, "allcb", "test")
    /\ LET f == Top(t) IN
        IF AllComplete(completed[f.p], Len(promises[f.p]))
        THEN /\ stack' = GotoCall(t, [f EXCEPT !.pc = "fin"],
                              SettleFrame(f.p, Fulfilled, <<result[f.p]>>))
             /\ UNCHANGED ret
        ELSE /\ stack' = Return(t)
             /\ ret' = [ret EXCEPT ![t] = Undef]
    /\ UNCHANGED <<direct, order, promises, result, completed, started, menu, inst, nInst, roots, budget,
                   reg, log, passes, calls, writes, outcome>>

\* line 133: the arrow function returns undefined
AllReturn(t) ==
    /\ Running(t, "allcb", "fin")
    /\ stack' = Return(t)
    /\ ret' = [ret EXCEPT ![t] = Undef]
    /\ UNCHANGED <<direct, order, promises, result, completed, started, menu, inst, nInst, roots, budget,
                   reg, log, passes, calls, writes, outcome>>

\* --------------------------------- src/fetch.js: fetch and request
\* fetch(url, opts): the executor hands resolve and reject to request; the url
\* is a string ("fetchUrl") or missing ("fetchNoUrl")
FetchKinds == {"fetchUrl", "fetchNoUrl"}

\* fetch.js line 225: (resolve, reject) => request(opts, resolve, reject)
FetchExec(t) ==
    /\ Running(t, "ctor", "exec")
    /\ Top(t).ex \in FetchKinds
    /\ LET f == Top(t) IN
        stack' = GotoCall(t, [f EXCEPT !.pc = "ret"],
                     RequestFrame(f.p, f.ex = "fetchUrl"))
    /\ UNCHANGED <<direct, order, promises, result, completed, started, menu, inst, nInst, roots,
                   ret, budget, reg, log, passes, calls, writes, outcome>>

\* the call resolve(...args) (st = Fulfilled) or reject(...args) (st = Rejected)
\* request or its Thread makes, frame f: of the functions the constructor bound
\* for fetch (promise.js line 13), or of the user's functions of a direct call
Invoke(f, st, args) ==
    IF f.p = 0 THEN CallbackFrame(0, 0, args) ELSE SettleFrame(f.p, st, args)
\* the history of the direct call of frame f, with the event ev added
Noted(f, ev) == IF f.p = 0 THEN [direct EXCEPT ![f.n] = Append(@, ev)] ELSE direct

\* fetch.js line 142: if (!opts.url) return reject("No url parameter ...")
RequestUrl(t) ==
    /\ Running(t, "request", "url")
    /\ LET f == Top(t) IN
        /\ stack' = IF f.nul
                    THEN GotoCall(t, [f EXCEPT !.pc = "fin"],
                             Invoke(f, Rejected, <<ErrNoUrl>>))
                    ELSE Goto(t, [f EXCEPT !.pc = "start"])
        /\ direct' = IF f.nul THEN Noted(f, "reject") ELSE direct
    /\ UNCHANGED <<order, promises, result, completed, started, menu, inst, nInst, roots,
                   ret, budget, reg, log, passes, calls, writes, outcome>>

\* a thread that runs nothing and has no calls of its own to make
FreeThreads == {u \in Threads : stack[u] = <<>> /\ budget[u] = 0}

\* fetch.js lines 144-152, 212: the defaults of opts, and new Thread(...).start()
RequestStart(t) ==
    /\ Running(t, "request", "start")
    /\ \E u \in FreeThreads \ {t} :
        stack' = [Goto(t, [Top(t) EXCEPT !.pc = "fin"]) EXCEPT
                     ![u] = <<[WorkerFrame(Top(t).p) EXCEPT !.n = Top(t).n]>>]
    /\ started' = IF Top(t).p = 0 THEN started
                  ELSE [started EXCEPT ![Top(t).p] = @ + 1]
    /\ direct' = Noted(Top(t), "start")
    /\ ret' = [ret EXCEPT ![t] = Undef]
    /\ UNCHANGED <<order, promises, result, completed, menu, inst, nInst, roots,
                   budget, reg, log, passes, calls, writes, outcome>>

\* fetch.js line 142 / 213: request returns what reject(...) returned or threw
\* (line 142), or undefined
RequestReturn(t) ==
    /\ Running(t, "request", "fin")
    /\ stack' = Return(t)
    /\ ret' = [ret EXCEPT ![t] = IF Top(t).nul THEN ret[t] ELSE Undef]
    /\ UNCHANGED <<direct, order, promises, result, completed, started, menu, inst, nInst, roots,
                   budget, reg, log, passes, calls, writes, outcome>>

\* fetch.js lines 153-208: the connection, the read loop and JSON.parse either
\* raise an error, caught at line 209, or reach the call resolve(...) of line 208
WorkerTry(t) ==
    /\ Running(t, "worker", "try")
    /\ \E ok \in BOOLEAN :
        LET f == Top(t) IN
        /\ stack' = IF ok
                    THEN GotoCall(t, [f EXCEPT !.pc = "after"],
                             Invoke(f, Fulfilled, <<Content>>))
                    ELSE Goto(t, [f EXCEPT !.pc = "catch"])
        /\ direct' = IF ok THEN Noted(f, "resolve") ELSE direct
    /\ UNCHANGED <<order, promises, result, completed, started, menu, inst, nInst, roots,
                   ret, budget, reg, log, passes, calls, writes, outcome>>

\* fetch.js lines 208-209: where the worker goes when resolve has completed
\* with r: to the catch block if it threw, else to the end of the try block
WorkerNext(r) == IF r.t = "throw" THEN "catch" ELSE "end"

WorkerAfter(t) ==
    /\ Running(t, "worker", "after")
    /\ stack' = Goto(t, [Top(t) EXCEPT !.pc = WorkerNext(ret[t])])
    /\ UNCHANGED <<direct, order, promises, result, completed, started, menu, inst, nInst, roots,
                   ret, budget, reg, log, passes, calls, writes, outcome>>

\* fetch.js lines 209-211: catch (error) { reject(error) }
WorkerCatch(t) ==
    /\ Running(t, "worker", "catch")
    /\ stack' = GotoCall(t, [Top(t) EXCEPT !.pc = "end"],
                    Invoke(Top(t), Rejected, <<ErrIO>>))
    /\ direct' = Noted(Top(t), "reject")
    /\ UNCHANGED <<order, promises, result, completed, started, menu, inst, nInst, roots,
                   ret, budget, reg, log, passes, calls, writes, outcome>>

\* fetch.js line 212: the body of the Thread ends
WorkerEnd(t) ==
    /\ Running(t, "worker", "end")
    /\ stack' = Return(t)
    /\ ret' = [ret EXCEPT ![t] = Undef]
    /\ UNCHANGED <<direct, order, promises, result, completed, started, menu, inst, nInst, roots,
                   budget, reg, log, passes, calls, writes, outcome>>

\* ---------------------------------------------------- top-level calls
CanCall(t) == stack[t] = <<>> /\ budget[t] > 0
Spend(t) == [budget EXCEPT ![t] = @ - 1]

\* new Promise(executor), Promise.resolve(...a), Promise.reject(...a)
CallNew(t) ==
    /\ CanCall(t)
    /\ nInst < MaxInst
    /\ \E ex \in Executors, a \in Payloads :
        stack' = Call(t, CtorFrame(ex, a))
    /\ budget' = Spend(t)
    /\ UNCHANGED <<direct, order, promises, result, completed, started, menu, inst, nInst, roots, ret, reg, log, passes, calls, writes, outcome>>

\* the producer calls the resolve it was handed: _resolve(...a)
CallResolve(t) ==
    /\ CanCall(t)
    /\ \E p \in roots, a \in Payloads :
        stack' = Call(t, SettleFrame(p, Fulfilled, a))
    /\ budget' = Spend(t)
    /\ UNCHANGED <<direct, order, promises, result, completed, started, menu, inst, nInst, roots, ret, reg, log, passes, calls, writes, outcome>>

\* the producer calls the reject it was handed: _reject(...a)
CallReject(t) ==
    /\ CanCall(t)
    /\ \E p \in roots, a \in Payloads :
        stack' = Call(t, SettleFrame(p, Rejected, a))
    /\ budget' = Spend(t)
    /\ UNCHANGED <<direct, order, promises, result, completed, started, menu, inst, nInst, roots, ret, reg, log, passes, calls, writes, outcome>>

\* p.then(onFulfilled, onRejected), each a user function or absent
CallThen(t) ==
    /\ CanCall(t)
    /\ nInst < MaxInst
    /\ \E p \in 1 .. nInst, onF \in {None, User}, onR \in {None, User} :
        stack' = Call(t, ThenFrame(p, onF, onR))
    /\ budget' = Spend(t)
    /\ UNCHANGED <<direct, order, promises, result, completed, started, menu, inst, nInst, roots, ret, reg, log, passes, calls, writes, outcome>>

\* p.then(onFulfilled, onRejected) with both callbacks user functions
CallThenBoth(t) ==
    /\ CanCall(t)
    /\ nInst < MaxInst
    /\ \E p \in 1 .. nInst :
        stack' = Call(t, ThenFrame(p, User, User))
    /\ budget' = Spend(t)
    /\ UNCHANGED <<direct, order, promises, result, completed, started, menu, inst, nInst, roots, ret, reg, log, passes, calls, writes, outcome>>

\* lines 89-91: p.catch(onRejected) is this.then(null, onRejected)
CallCatch(t) ==
    /\ CanCall(t)
    /\ nInst < MaxInst
    /\ \E p \in 1 .. nInst, onR \in {None, User} :
        stack' = Call(t, ThenFrame(p, None, onR))
    /\ budget' = Spend(t)
    /\ UNCHANGED <<direct, order, promises, result, completed, started, menu, inst, nInst, roots, ret, reg, log, passes, calls, writes, outcome>>

\* fetch.js lines 223-226: fetch(url, opts), with a url or without; the model
\* runs one worker at a time
CallFetch(t) ==
    /\ CanCall(t)
    /\ nInst < MaxInst
    /\ \E ex \in FetchKinds :
        /\ ex = "fetchUrl" => FreeThreads \ {t} # {}
        /\ stack' = Call(t, CtorFrame(ex, <<>>))
    /\ budget' = Spend(t)
    /\ UNCHANGED <<direct, order, promises, result, completed, started, menu, inst, nInst, roots,
                   ret, reg, log, passes, calls, writes, outcome>>

\* fetch.js lines 141-213: request(opts, resolve, reject) called with two user
\* functions, opts.url set or not
CallRequest(t) ==
    /\ CanCall(t)
    /\ \E url \in BOOLEAN :
        /\ url => FreeThreads \ {t} # {}
        /\ stack' = Call(t, DirectFrame(Len(direct) + 1, url))
    /\ direct' = Append(direct, <<>>)
    /\ budget' = Spend(t)
    /\ UNCHANGED <<order, promises, result, completed, started, menu, inst, nInst, roots,
                   ret, reg, log, passes, calls, writes, outcome>>

\* the producer of a root settles it with the root's own payload, so that the
\* inputs of all / race are told apart: one value for the odd roots, two for the
\* even ones
OwnPayload(p) == IF p % 2 = 1 THEN <<1>> ELSE <<2, 3>>

CallResolveOwn(t) ==
    /\ CanCall(t)
    /\ \E p \in roots :
        stack' = Call(t, SettleFrame(p, Fulfilled, OwnPayload(p)))
    /\ budget' = Spend(t)
    /\ UNCHANGED <<direct, order, promises, result, completed, started, menu, inst, nInst, roots,
                   ret, reg, log, passes, calls, writes, outcome>>

CallRejectOwn(t) ==
    /\ CanCall(t)
    /\ \E p \in roots :
        stack' = Call(t, SettleFrame(p, Rejected, OwnPayload(p)))
    /\ budget' = Spend(t)
    /\ UNCHANGED <<direct, order, promises, result, completed, started, menu, inst, nInst, roots,
                   ret, reg, log, passes, calls, writes, outcome>>

\* the arguments of all / race: the sequences of at most MaxInputs roots
InputSeqs == UNION {[1 .. n -> roots] : n \in 0 .. MaxInputs}

\* Promise.all(ps)
CallAll(t) ==
    /\ CanCall(t)
    /\ nInst < MaxInst
    /\ \E ps \in InputSeqs :
        stack' = Call(t, CtorFrame("all", ps))
    /\ budget' = Spend(t)
    /\ UNCHANGED <<direct, order, promises, result, completed, started, menu, inst, nInst, roots, ret, reg,
                   log, passes, calls, writes, outcome>>

\* Promise.race(ps)
CallRace(t) ==
    /\ CanCall(t)
    /\ nInst < MaxInst
    /\ \E ps \in InputSeqs :
        stack' = Call(t, CtorFrame("race", ps))
    /\ budget' = Spend(t)
    /\ UNCHANGED <<direct, order, promises, result, completed, started, menu, inst, nInst, roots, ret, reg,
                   log, passes, calls, writes, outcome>>

\* ------------------------------------------------------ specifications
\* the state after the construction of the roots: n instances constructed with
\* a "defer" executor, all Pending
InitEngine(n) ==
    /\ inst = [p \in Insts |-> NewInst]
    /\ nInst = n
    /\ roots = 1 .. n
    /\ stack = [t \in Threads |-> <<>>]
    /\ ret = [t \in Threads |-> Undef]
    /\ reg = [p \in Insts |-> NoReg]
    /\ log = <<>>
    /\ passes = [p \in Insts |-> 0]
    /\ calls = [p \in Insts |-> <<>>]
    /\ writes = [p \in Insts |-> <<>>]
    /\ outcome = [p \in Insts |-> NoOutcome]
    /\ order = <<>>
    /\ promises = [p \in Insts |-> <<>>]
    /\ result = [p \in Insts |-> <<>>]
    /\ completed = [p \in Insts |-> 0]
    /\ started = [p \in Insts |-> 0]
    /\ direct = <<>>

OneThread == [t \in Threads |-> IF t = 1 THEN MaxCalls ELSE 0]

SettleSteps(t) ==
    \/ SettleCheck(t) \/ SettleState(t) \/ SettlePayload(t) \/ SettleForEach(t)
    \/ SettleIter(t)
ThenSteps(t) ==
    \/ ThenNew(t) \/ ThenSwitch(t) \/ ThenFulfilled(t) \/ ThenRejected(t)
    \/ ThenPush(t) \/ ThenReturn(t)
HandlerSteps(t) ==
    \/ HandlerCall(t) \/ HandlerAfter(t) \/ HandlerDone(t) \/ CallbackStart(t)
EngineSteps(t) == SettleSteps(t) \/ ThenSteps(t) \/ HandlerSteps(t)
EngineCalls(t) == CallResolve(t) \/ CallReject(t) \/ CallThen(t) \/ CallCatch(t)

\* Spec: one thread; the callbacks return or throw
Init == InitEngine(1) /\ budget = OneThread /\ menu = {"undef", "val", "throw"}
Next == \E t \in Threads : EngineSteps(t) \/ EngineCalls(t)
Spec == Init /\ [][Next]_vars

\* SpecReenter: one thread; the callbacks also call back into the instance that
\* is dispatching them
InitReenter == InitEngine(1) /\ budget = OneThread
               /\ menu = {"undef", "throw", "then", "settle"}
NextReenter ==
    \E t \in Threads :
        \/ EngineSteps(t) \/ CallbackReturn(t)
        \/ CallResolve(t) \/ CallReject(t) \/ CallThenBoth(t)
SpecReenter == InitReenter /\ [][NextReenter]_vars

\* SpecChain: one thread, two roots; the callbacks return instances
InitChain == InitEngine(2) /\ budget = OneThread
             /\ menu = {"undef", "promise", "double"}
NextChain ==
    \E t \in Threads :
        \/ EngineSteps(t) \/ CallbackReturn(t)
        \/ CallResolve(t) \/ CallReject(t) \/ CallThenBoth(t)
        \/ CtorNew(t) \/ CtorExec(t) \/ CtorReturn(t)
SpecChain == InitChain /\ [][NextChain]_vars

\* SpecCtor: one thread, no root at calls; instances are constructed with the
\* executors
InitCtor == InitEngine(0) /\ budget = OneThread /\ menu = {"undef", "throw"}
NextCtor ==
    \E t \in Threads :
        \/ EngineSteps(t) \/ CallNew(t) \/ CallThenBoth(t) \/ CallResolve(t)
        \/ CtorNew(t) \/ CtorExec(t) \/ CtorCatch(t) \/ CtorReturn(t)
SpecCtor == InitCtor /\ [][NextCtor]_vars

\* SpecMT: two threads, as src/fetch.js uses the engine: the thread that runs
\* request()'s new Thread settles the instance while the constructing thread
\* goes on attaching handlers. The steps of the two threads interleave.
InitMT == InitEngine(1) /\ menu = {"undef"}
          /\ budget = [t \in Threads |-> IF t = 1 THEN MaxCalls - 1 ELSE 1]
NextMT == \E t \in Threads : EngineSteps(t) \/ EngineCalls(t)
SpecMT == InitMT /\ [][NextMT]_vars

\* SpecAll: one thread, two roots; all is called on them and their producers
\* resolve and reject them, before or after
HandlerEngine(t) == HandlerCall(t) \/ HandlerAfter(t) \/ HandlerDone(t)
CtorEngine(t) == CtorNew(t) \/ ExecStart(t) \/ ExecLoop(t) \/ ExecCatch(t) \/ CtorReturn(t)
InitAll == InitEngine(2) /\ budget = OneThread /\ menu = {}
NextAll ==
    \E t \in Threads :
        \/ SettleSteps(t) \/ ThenSteps(t) \/ HandlerEngine(t) \/ CtorEngine(t)
        \/ AllStore(t) \/ AllCount(t) \/ AllTest(t) \/ AllReturn(t)
        \/ CallAll(t) \/ CallResolveOwn(t) \/ CallRejectOwn(t)
SpecAll == InitAll /\ [][NextAll]_vars

\* SpecRace: one thread, two roots; race is called on them
InitRace == InitEngine(2) /\ budget = OneThread /\ menu = {}
NextRace ==
    \E t \in Threads :
        \/ SettleSteps(t) \/ ThenSteps(t) \/ HandlerEngine(t) \/ CtorEngine(t)
        \/ CallRace(t) \/ CallResolveOwn(t) \/ CallRejectOwn(t)
SpecRace == InitRace /\ [][NextRace]_vars

\* SpecReject: one thread, one root; the callbacks return a value or the
\* Promise.resolve(2 * v) they make
InitReject == InitEngine(1) /\ budget = OneThread /\ menu = {"val", "double"}
NextReject ==
    \E t \in Threads :
        \/ EngineSteps(t) \/ CallbackReturn(t)
        \/ CtorNew(t) \/ CtorExec(t) \/ CtorReturn(t)
        \/ CallResolve(t) \/ CallReject(t) \/ CallThen(t) \/ CallCatch(t)
SpecReject == InitReject /\ [][NextReject]_vars

\* SpecFetch: the thread that calls fetch goes on attaching handlers while the
\* worker thread of request settles the instance
RequestSteps(t) == FetchExec(t) \/ RequestUrl(t) \/ RequestStart(t) \/ RequestReturn(t)
WorkerSteps(t) == WorkerTry(t) \/ WorkerAfter(t) \/ WorkerCatch(t) \/ WorkerEnd(t)
InitFetch == InitEngine(0) /\ budget = OneThread /\ menu = {"undef", "throw"}
NextFetch ==
    \E t \in Threads :
        \/ EngineSteps(t) \/ CtorNew(t) \/ CtorReturn(t)
        \/ RequestSteps(t) \/ WorkerSteps(t)
        \/ CallFetch(t) \/ CallThenBoth(t) \/ CallRequest(t)
SpecFetch == InitFetch /\ [][NextFetch]_vars

\* ---------------------------------------------------------- observers
Made == 1 .. nInst
Derived == {d \in Made : reg[d].ex = "then"}
OnStack == UNION {{stack[t][i] : i \in DOMAIN stack[t]} : t \in Threads}
PayloadOf(p) == IF inst[p].state = Fulfilled THEN inst[p].value ELSE inst[p].reason
OtherOf(p) == IF inst[p].state = Fulfilled THEN inst[p].reason ELSE inst[p].value
\* the log positions of the invocations of the handler of registration d
Entries(d) == {i \in DOMAIN log : log[i].d = d}
\* the callback of registration d that matches the state w
Matching(d, w) == IF w = Fulfilled THEN reg[d].onF ELSE reg[d].onR
\* a settling call on p is between its write of state and its write of the payload
Storing(p) == \E f \in OnStack : f.k = "settle" /\ f.p = p /\ f.pc = "payload"
\* the then call that made d has run its switch and has handed control back
ThenDone(d) ==
    /\ reg[d].at # 0 - 1
    /\ \A t \in Threads : \A i \in DOMAIN stack[t] :
         (stack[t][i].k = "then" /\ stack[t][i].d2 = d)
             => (stack[t][i].pc = "ret" /\ i = Len(stack[t]))
\* the wrapper of registration d has run and has returned
HandlerFinished(d) ==
    /\ outcome[d] # NoOutcome
    /\ ~ \E f \in OnStack : f.k = "handler" /\ f.d2 = d
\* the invocations made by the forEach pass over p.handlers, in order
IsPassEntry(p, e) == e.by = "pass" /\ reg[e.d].p = p
PassLog(p) == SelectSeq(log, LAMBDA e : IsPassEntry(p, e))
\* the pass over p.handlers has visited every index: the settling call is about
\* to return, or has returned
PassDone(p) ==
    /\ passes[p] >= 1
    /\ \A t \in Threads : \A i \in DOMAIN stack[t] :
         (stack[t][i].k = "settle" /\ stack[t][i].p = p /\ stack[t][i].pc # "check")
             => /\ stack[t][i].pc = "iter"
                /\ stack[t][i].i > stack[t][i].n
                /\ i = Len(stack[t])

\* ------------------------------------------------------------------ C1
SettleOnceState ==
    \A p \in Made : inst[p].state # Pending =>
        /\ calls[p] # <<>>
        /\ inst[p].state = calls[p][1].st
        /\ writes[p] = <<calls[p][1].st>>
        /\ passes[p] <= 1
        /\ OtherOf(p) = NoPayload
        /\ PayloadOf(p) = IF Storing(p) THEN NoPayload ELSE Some(calls[p][1].args)
        /\ \A i \in DOMAIN log : IsPassEntry(p, log[i]) =>
              log[i].w = calls[p][1].st /\ log[i].v = Some(calls[p][1].args)

SettleOnceStep ==
    \A p \in Made : inst[p].state # Pending =>
        /\ inst'[p].state = inst[p].state
        /\ inst[p].value # NoPayload => inst'[p].value = inst[p].value
        /\ inst[p].reason # NoPayload => inst'[p].reason = inst[p].reason
        /\ passes[p] = 1 => passes'[p] = 1

\* C1: settle-once (one thread). The state and the payload of an instance are
\* those of the first resolve/reject call made on it; a later call, from the
\* top level or from inside a callback, writes nothing and starts no pass; once
\* an instance has left Pending no step of any operation changes its state or
\* a stored payload.
SettleOnce == [] SettleOnceState /\ [][SettleOnceStep]_vars

\* C1 witness: a reject made after a resolve on the same instance has returned,
\* and the instance is still as the resolve left it
SettleOnceWitness ==
    /\ Idle
    /\ \E p \in Made :
        /\ Len(calls[p]) >= 2
        /\ calls[p][1].st = Fulfilled /\ calls[p][2].st = Rejected
        /\ calls[p][2].args # calls[p][1].args
        /\ inst[p].state = Fulfilled

\* ------------------------------------------------------------------ C2
\* C2: exactly-once dispatch (one thread). No registration has its wrapper
\* invoked twice, whichever of its two callbacks that would call; no instance
\* has two passes; a handler attached after settlement is invoked by then itself
\* and one attached before by the pass; and between top-level calls every
\* registration on a settled instance has had the callback matching the final
\* state invoked exactly once (and run to completion when it is a function).
ExactlyOnce ==
    /\ \A d \in Made : Cardinality(Entries(d)) <= 1
    /\ \A p \in Made : passes[p] <= 1
    /\ \A i \in DOMAIN log :
          log[i].by = IF reg[log[i].d].at = Pending THEN "pass" ELSE "attach"
    /\ Idle => \A d \in Derived : inst[reg[d].p].state # Pending =>
          /\ \E i \in Entries(d) :
               /\ log[i].w = inst[reg[d].p].state
               /\ log[i].cb = Matching(d, log[i].w).t
          /\ Matching(d, inst[reg[d].p].state) = User
                => outcome[d].t \in {"val", "throw"}

\* C2 witness: a then called from inside a callback, while the pass over the
\* same instance was running, has been served at attach time, once
ExactlyOnceWitness ==
    /\ Idle
    /\ \E d \in Derived :
        /\ reg[d].inPass
        /\ reg[d].at # Pending
        /\ passes[reg[d].p] = 1
        /\ \E i \in Entries(d) : log[i].by = "attach"

\* ------------------------------------------------------------------ C3
\* C3: cross-thread hand-off. For an instance that a single resolve/reject
\* call has settled, no registration has its handler invoked twice, and once
\* both threads have returned every registration made by then has had its
\* matching callback invoked exactly once: none is left stored on the settled
\* instance without ever being invoked.
HandOff ==
    \A d \in Derived :
        LET p == reg[d].p IN
        Len(writes[p]) <= 1 =>
            /\ Cardinality(Entries(d)) <= 1
            /\ (Idle /\ inst[p].state # Pending) =>
                  \E i \in Entries(d) : log[i].w = inst[p].state

\* ------------------------------------------------------------------ C4
\* C4: atomic settle transition. Whatever the interleaving of the resolve and
\* reject calls of two threads on one instance, only one call writes state and
\* payload, only one pass over the handlers takes place, value and reason are
\* never both set, and no handler is invoked both for a fulfilment and for a
\* rejection.
AtomicSettle ==
    /\ \A p \in Made :
        /\ Len(writes[p]) <= 1
        /\ passes[p] <= 1
        /\ ~ (inst[p].value # NoPayload /\ inst[p].reason # NoPayload)
    /\ \A i, j \in DOMAIN log : log[i].d = log[j].d => log[i].w = log[j].w

\* ------------------------------------------------------------------ C5
\* C5: immediate dispatch on late attach. When a then call that found the
\* instance Fulfilled (Rejected) hands control back, its onFulfilled
\* (onRejected) has been invoked, once, by then itself, with the instance's
\* value (reason) spread as arguments, and has run to completion when it is a
\* function; the handler is not in the instance's list, which holds only
\* handlers attached while Pending; state and payload are what then found.
LateAttach ==
    \A d \in Derived :
        LET p == reg[d].p IN
        (reg[d].at \in {Fulfilled, Rejected} /\ ThenDone(d)) =>
            /\ Cardinality(Entries(d)) = 1
            /\ \A i \in Entries(d) :
                 /\ log[i].by = "attach"
                 /\ log[i].w = reg[d].at
                 /\ log[i].v # NoPayload
                 /\ log[i].v = PayloadOf(p)
                 /\ log[i].cb = Matching(d, reg[d].at).t
            /\ Matching(d, reg[d].at) = User => outcome[d].t \in {"val", "throw"}
            /\ \A j \in DOMAIN inst[p].handlers :
                 /\ inst[p].handlers[j].d2 # d
                 /\ reg[inst[p].handlers[j].d2].at = Pending
            /\ inst[p].state = reg[d].at

\* C5 witness: a then on a Fulfilled instance and a then on a Rejected one
\* have both invoked their user callback and are about to return or have returned
LateAttachWitness ==
    /\ \E d \in Derived :
        reg[d].at = Fulfilled /\ reg[d].onF = User /\ ThenDone(d)
    /\ \E d \in Derived :
        reg[d].at = Rejected /\ reg[d].onR = User /\ ThenDone(d)

\* ------------------------------------------------------------------ C6
\* C6: registration-order dispatch. The invocations made by the pass of the
\* settling call follow the order in which the handlers were attached, each for
\* the state and with the payload of the settlement, and when the settling call
\* is about to return every handler attached while Pending has been invoked.
RegistrationOrder ==
    \A p \in Made :
        LET L == PassLog(p)
            H == inst[p].handlers IN
        /\ Len(L) <= Len(H)
        /\ \A k \in 1 .. Len(L) :
             /\ L[k].d = H[k].d2
             /\ L[k].w = inst[p].state
             /\ L[k].v = PayloadOf(p)
             /\ L[k].v # NoPayload
        /\ PassDone(p) => Len(L) = Len(H)

\* C6 witness: a settling call that found two handlers is about to return
RegistrationOrderWitness ==
    \E p \in Made : \E f \in OnStack :
        /\ f.k = "settle" /\ f.p = p /\ f.pc = "iter" /\ f.n >= 2 /\ f.i > f.n
        /\ PassDone(p)

\* ------------------------------------------------------------------ C7
\* C7: multi-value passthrough. A fulfilment wrapper is called with exactly the
\* source's value; and once it has returned, if onFulfilled was absent or
\* returned a value that is no instance, the derived instance is Fulfilled with
\* the same values in the same order, whatever the callback returned.
Passthrough ==
    \A d \in Derived : \A i \in Entries(d) :
        LET p == reg[d].p IN
        log[i].w = Fulfilled =>
            /\ log[i].v = inst[p].value
            /\ (HandlerFinished(d) /\ outcome[d].t \in {"absent", "val"}) =>
                  /\ inst[d].state = Fulfilled
                  /\ inst[d].value = inst[p].value
                  /\ inst[d].reason = NoPayload

\* C7 witness: two-value payload passed on by an absent onFulfilled and by one
\* that returned another value
PassthroughWitness ==
    /\ Idle
    /\ \E d, e \in Derived :
        /\ outcome[d] = Absent /\ outcome[e] = RetVal(1)
        /\ inst[d].value = Some(<<2, 3>>) /\ inst[e].value = Some(<<2, 3>>)
        /\ \E i \in Entries(e) : log[i].v = Some(<<2, 3>>) /\ log[i].cb = "user"

\* ------------------------------------------------------------------ C8
\* C8: flattening. If the callback of registration d returned the instance R,
\* then d is settled only as R is, and between top-level calls d has the state,
\* value and reason of R (Pending while R is Pending); when R is the
\* Promise.resolve(2 * v) the callback made, d is Fulfilled with 2 * v.
Flattening ==
    \A d \in Derived :
        outcome[d].t = "promise" =>
            LET R == outcome[d].v IN
            /\ inst[d].state # Pending => inst[d].state = inst[R].state
            /\ (Idle \/ (inst[d].state # Pending /\ ~ Storing(d))) =>
                  /\ inst[d].state = inst[R].state
                  /\ inst[d].value = inst[R].value
                  /\ inst[d].reason = inst[R].reason
            /\ (Idle /\ reg[R].ex = "resolve") =>
                  \A i \in Entries(d) : inst[d].value = Some(<<2 * log[i].v[1][1]>>)

\* C8 witness: the returned instance was Pending when returned and was rejected
\* later; the derived instance is Rejected with its reasons
FlatteningWitness ==
    /\ Idle
    /\ \E d, c \in Derived :
        /\ outcome[d].t = "promise"
        /\ reg[c].p = outcome[d].v /\ reg[c].onR = Rej(d) /\ reg[c].at = Pending
        /\ inst[d].state = Rejected
        /\ inst[d].reason = inst[outcome[d].v].reason
        /\ inst[d].reason # inst[reg[d].p].value

\* ------------------------------------------------------------------ C9
\* C9: continuation failure. Once the wrapper of a callback that threw e has
\* returned, the derived instance is Rejected with e as its sole reason; a thrown
\* completion exists only where the wrapper's catch is about to take it, so it
\* is never the completion of then, resolve or reject; and the pass visits
\* every handler all the same.
ContinuationFailure ==
    /\ \A d \in Derived :
        (outcome[d].t = "throw" /\ HandlerFinished(d)) =>
            /\ inst[d].state = Rejected
            /\ inst[d].reason = Some(<<outcome[d].v>>)
            /\ inst[d].value = NoPayload
    /\ \A t \in Threads :
        ret[t].t = "throw" =>
            /\ stack[t] # <<>>
            /\ Top(t).k = "handler" /\ Top(t).pc = "after"
    /\ \A p \in Made : PassDone(p) => Len(PassLog(p)) = Len(inst[p].handlers)

\* C9 witness: the first of two handlers threw and the second was still invoked
ContinuationFailureWitness ==
    \E p \in Made :
        /\ PassDone(p)
        /\ Len(inst[p].handlers) >= 2
        /\ outcome[inst[p].handlers[1].d2] = Thrown(ErrUser)
        /\ inst[inst[p].handlers[1].d2].reason = Some(<<ErrUser>>)
        /\ outcome[inst[p].handlers[2].d2].t = "val"

\* ----------------------------------------------------------------- C10
\* the constructor call that made p has returned
CtorDone(p) == ~ \E f \in OnStack : f.k = "ctor" /\ f.p = p
Throwing == {"throw", "resolveThrow", "rejectThrow"}

\* C10 as claimed: every instance whose executor threw e is Rejected with e as
\* its sole reason when the constructor has returned, whether or not the
\* executor called resolve or reject before it threw.
ExecutorFailureAlways ==
    \A p \in Made :
        (reg[p].ex \in Throwing /\ CtorDone(p)) =>
            inst[p].state = Rejected /\ inst[p].reason = Some(<<ErrUser>>)

\* C10 amended: an instance whose executor threw e before calling resolve or
\* reject is Rejected with e as its sole reason when the constructor has
\* returned; one whose executor called resolve or reject first keeps the state
\* and payload of that first call; and the constructor never completes by
\* throwing.
ExecutorFailure ==
    /\ \A p \in Made : CtorDone(p) =>
        /\ reg[p].ex = "throw" =>
             /\ inst[p].state = Rejected
             /\ inst[p].reason = Some(<<ErrUser>>)
             /\ inst[p].value = NoPayload
        /\ reg[p].ex \in {"resolveThrow", "rejectThrow"} =>
             /\ Len(calls[p]) >= 2
             /\ calls[p][2] = [st |-> Rejected, args |-> <<ErrUser>>]
             /\ inst[p].state = calls[p][1].st
             /\ inst[p].state = IF reg[p].ex = "resolveThrow" THEN Fulfilled
                                ELSE Rejected
             /\ PayloadOf(p) = Some(calls[p][1].args)
             /\ PayloadOf(p) # Some(<<ErrUser>>)
             /\ OtherOf(p) = NoPayload
    /\ \A t \in Threads :
        ret[t].t = "throw" =>
            /\ stack[t] # <<>>
            /\ Top(t).k = "handler" /\ Top(t).pc = "after"

\* C10 witness: one executor threw at once, another after calling resolve
ExecutorFailureWitness ==
    /\ Idle
    /\ \E p, q \in Made :
        /\ reg[p].ex = "throw" /\ inst[p].state = Rejected
        /\ reg[q].ex = "resolveThrow" /\ inst[q].state = Fulfilled

\* ------------------------------------------------- observers of all / race
AllInsts == {a \in Made : reg[a].ex = "all"}
RaceInsts == {a \in Made : reg[a].ex = "race"}
Indices(a) == 1 .. Len(promises[a])
\* Links(a)[i]: the instance the then call of the loop made for the input at
\* index i of a (0 while the call has not been made): for all, the one whose
\* onFulfilled is the arrow function of index i; for race, the i-th of those
\* whose onFulfilled is the resolve of a
Links(a) ==
    LET R == {d \in Made : reg[d].ex = "then" /\ reg[d].onF = Res(a)}
        A(i) == {d \in Made : reg[d].ex = "then" /\ reg[d].onF = AllCb(a, i)}
        L(i) == IF reg[a].ex = "all" THEN A(i)
                ELSE {d \in R : Cardinality({e \in R : e < d}) = i - 1} IN
    [i \in Indices(a) |-> IF L(i) = {} THEN 0 ELSE CHOOSE d \in L(i) : TRUE]
\* Catches(a)[i]: the instance the .catch(reject) on Links(a)[i] made (0: none)
Catches(a) ==
    LET lk == Links(a)
        C(i) == {c \in Made : reg[c].ex = "then" /\ reg[c].p = lk[i]} IN
    [i \in Indices(a) |-> IF C(i) = {} THEN 0 ELSE CHOOSE c \in C(i) : TRUE]
\* the state the input at index i had when the loop attached to it (- 1: the
\* loop has not attached to it)
AtCall(a) ==
    LET lk == Links(a) IN
    [i \in Indices(a) |-> IF lk[i] = 0 THEN 0 - 1 ELSE reg[lk[i]].at]
\* the loop of a has made both calls for index i and they have returned
Attached(a) ==
    LET ck == Catches(a) IN
    {i \in Indices(a) : ck[i] # 0 /\ ThenDone(ck[i])}
\* the position of p in the order of settlement (0: not settled)
SettledAt(p) ==
    LET K == {k \in DOMAIN order : order[k] = p} IN
    IF K = {} THEN 0 ELSE CHOOSE k \in K : \A j \in K : k <= j
\* the first value of the payload of a Fulfilled instance
FirstValue(p) == FirstArg(inst[p].value[1])

\* ----------------------------------------------------------------- C11
\* C11: all() ordering. The result of all over a non-empty sequence is never
\* Fulfilled while an input is not; it is Pending while no input is Rejected
\* and some input is Pending; and between top-level calls, when every input is
\* Fulfilled, it is Fulfilled with one sequence whose element i is the first
\* value of input i, whatever the order in which the inputs fulfilled and
\* whether they fulfilled before or after all was called.
AllOrdering ==
    \A a \in AllInsts :
        LET ps == promises[a] IN
        /\ inst[a].state = Fulfilled =>
              \A i \in Indices(a) : inst[ps[i]].state = Fulfilled
        /\ ((\E i \in Indices(a) : inst[ps[i]].state = Pending)
             /\ (\A i \in Indices(a) : inst[ps[i]].state # Rejected))
              => inst[a].state = Pending
        /\ (Idle /\ ps # <<>> /\ \A i \in Indices(a) : inst[ps[i]].state = Fulfilled) =>
              /\ inst[a].state = Fulfilled
              /\ inst[a].reason = NoPayload
              /\ Len(inst[a].value[1]) = 1
              /\ Len(inst[a].value[1][1]) = Len(ps)
              /\ \A i \in Indices(a) : inst[a].value[1][1][i] = FirstValue(ps[i])

\* C11 witness: all over two different inputs with different first values; the
\* second input was Fulfilled when all was called, the first fulfilled later,
\* so the callback of index 2 ran before the callback of index 1
AllOrderingWitness ==
    /\ Idle
    /\ \E a \in AllInsts :
        /\ Len(promises[a]) = 2
        /\ promises[a][1] # promises[a][2]
        /\ inst[a].state = Fulfilled
        /\ AtCall(a)[1] = Pending /\ AtCall(a)[2] = Fulfilled
        /\ FirstValue(promises[a][1]) # FirstValue(promises[a][2])
        /\ \E i, j \in DOMAIN log :
             i < j /\ log[i].d = Links(a)[2] /\ log[j].d = Links(a)[1]

\* ----------------------------------------------------------------- C12
RejectedInputs(a) == {i \in Indices(a) : inst[promises[a][i]].state = Rejected}
\* as soon as an input the loop has attached to is Rejected and its reject call
\* is about to return (or has returned), the result is Rejected
RejectsAtOnce(a) ==
    inst[a].state # Rejected =>
        \A i \in Indices(a) :
            LET x == promises[a][i] IN
            (inst[x].state = Rejected /\ PassDone(x)) => i \notin Attached(a)

\* C12 as claimed: the result of all is Rejected as soon as an input is, before
\* the rejecting call returns, and its reasons are those of the input that was
\* the first to reject, whatever happens to the other inputs later.
AllFirstReject ==
    \A a \in AllInsts :
        /\ RejectsAtOnce(a)
        /\ (inst[a].state = Rejected /\ ~ Storing(a)) =>
              \E i \in RejectedInputs(a) :
                  /\ \A j \in RejectedInputs(a) :
                        SettledAt(promises[a][i]) <= SettledAt(promises[a][j])
                  /\ inst[a].reason = inst[promises[a][i]].reason

\* C12 amended: the result of all is Rejected as soon as an input is, before the
\* rejecting call returns (before all returns for an input already Rejected), and
\* its reasons are those of the earliest input in input order among the inputs
\* already Rejected when all was called, or, when there was none, of the input
\* that was the first to reject; the other inputs are not waited for and what
\* happens to them later changes nothing.
AllFailFast ==
    \A a \in AllInsts :
        /\ RejectsAtOnce(a)
        /\ (inst[a].state = Rejected /\ ~ Storing(a)) =>
              LET at == AtCall(a)
                  early == {i \in Indices(a) : at[i] = Rejected} IN
              /\ inst[a].value = NoPayload
              /\ \E i \in RejectedInputs(a) :
                  /\ IF early # {}
                     THEN i \in early /\ \A j \in early : i <= j
                     ELSE \A j \in RejectedInputs(a) :
                            SettledAt(promises[a][i]) <= SettledAt(promises[a][j])
                  /\ inst[a].reason = inst[promises[a][i]].reason
        /\ inst[a].state = Rejected => RejectedInputs(a) # {}

\* C12 witness: the second input rejected while the first was Pending; the
\* result was Rejected at once, and the first input, settled later with another
\* payload, left it as it was
AllFailFastWitness ==
    /\ Idle
    /\ \E a \in AllInsts :
        /\ Len(promises[a]) = 2
        /\ inst[a].state = Rejected
        /\ AtCall(a)[1] = Pending /\ AtCall(a)[2] = Pending
        /\ inst[promises[a][2]].state = Rejected
        /\ inst[promises[a][1]].state # Pending
        /\ SettledAt(promises[a][2]) < SettledAt(a)
        /\ SettledAt(a) < SettledAt(promises[a][1])
        /\ PayloadOf(promises[a][1]) # inst[promises[a][2]].reason
        /\ inst[a].reason = inst[promises[a][2]].reason

\* ----------------------------------------------------------------- C13
\* C13: all() on an empty sequence. When all(<<>>) has returned, the instance
\* it returned is Fulfilled and its payload is one empty sequence.
AllEmpty ==
    \A a \in AllInsts :
        (CtorDone(a) /\ promises[a] = <<>>) =>
            /\ inst[a].state = Fulfilled
            /\ inst[a].value = Some(<< <<>> >>)

\* ----------------------------------------------------------------- C14
SettledInputs(a) == {i \in Indices(a) : inst[promises[a][i]].state # Pending}

\* C14: race() first-wins. The result of race is Pending while every input is;
\* as soon as an input the loop has attached to is settled and its settling
\* call is about to return, the result is settled; and its state and payload
\* are those of the earliest input in input order among the inputs already
\* settled when race was called, or, when there was none, of the input that
\* settled first, whatever the other inputs do later.
RaceFirstWins ==
    \A a \in RaceInsts :
        /\ SettledInputs(a) = {} => inst[a].state = Pending
        /\ inst[a].state = Pending =>
              \A i \in Indices(a) : PassDone(promises[a][i]) => i \notin Attached(a)
        /\ (inst[a].state # Pending /\ ~ Storing(a)) =>
              LET at == AtCall(a)
                  early == {i \in Indices(a) : at[i] \in {Fulfilled, Rejected}} IN
              \E i \in SettledInputs(a) :
                  /\ IF early # {}
                     THEN i \in early /\ \A j \in early : i <= j
                     ELSE \A j \in SettledInputs(a) :
                            SettledAt(promises[a][i]) <= SettledAt(promises[a][j])
                  /\ inst[a].state = inst[promises[a][i]].state
                  /\ inst[a].value = inst[promises[a][i]].value
                  /\ inst[a].reason = inst[promises[a][i]].reason

\* C14 witness: the first input fulfilled with two values while the second was
\* Pending; the result took them, and the later rejection of the second input
\* left it as it was
RaceFirstWinsWitness ==
    /\ Idle
    /\ \E a \in RaceInsts :
        /\ Len(promises[a]) = 2
        /\ inst[a].state = Fulfilled
        /\ AtCall(a)[1] = Pending /\ AtCall(a)[2] = Pending
        /\ inst[promises[a][1]].state = Fulfilled
        /\ inst[promises[a][2]].state = Rejected
        /\ SettledAt(promises[a][1]) < SettledAt(a)
        /\ SettledAt(a) < SettledAt(promises[a][2])
        /\ inst[a].value = Some(<<2, 3>>)
        /\ inst[promises[a][2]].reason # inst[a].value

\* ----------------------------------------------------------------- C15
\* C15: rejection is handled as fulfilment is. The wrapper invoked for a
\* rejection calls onRejected, with exactly the source's reasons, and on a
\* Rejected source no wrapper is invoked for a fulfilment; once the wrapper
\* has returned, if onRejected was absent or returned a value that is no
\* instance, the derived instance is Rejected with the same reasons; and the
\* derived instance of a Rejected source is Fulfilled only if onRejected
\* returned an instance that is Fulfilled.
RejectionSymmetric ==
    \A d \in Derived :
        LET p == reg[d].p IN
        /\ \A i \in Entries(d) : log[i].w = Rejected =>
             /\ inst[p].state = Rejected
             /\ log[i].cb = reg[d].onR.t
             /\ log[i].v # NoPayload
             /\ log[i].v = inst[p].reason
             /\ (HandlerFinished(d) /\ outcome[d].t \in {"absent", "val"}) =>
                   /\ inst[d].state = Rejected
                   /\ inst[d].reason = inst[p].reason
                   /\ inst[d].value = NoPayload
        /\ inst[p].state = Rejected =>
             /\ \A i \in Entries(d) : log[i].w = Rejected
             /\ (ThenDone(d) /\ PassDone(p)) => Entries(d) # {}
             /\ inst[d].state = Fulfilled =>
                   /\ outcome[d].t = "promise"
                   /\ inst[outcome[d].v].state = Fulfilled

\* C15 witness: a rejection with two reasons went through two links, a then
\* without onRejected and a catch whose onRejected returned a value, unchanged
RejectionSymmetricWitness ==
    /\ Idle
    /\ \E d, e \in Derived :
        /\ reg[e].p = d
        /\ reg[d].onF = User /\ reg[d].onR = None
        /\ reg[e].onF = None /\ reg[e].onR = User
        /\ outcome[d] = Absent /\ outcome[e] = RetVal(1)
        /\ inst[reg[d].p].reason = Some(<<2, 3>>)
        /\ inst[d].state = Rejected /\ inst[d].reason = Some(<<2, 3>>)
        /\ inst[e].state = Rejected /\ inst[e].reason = Some(<<2, 3>>)

\* ----------------------------------------------------------------- C16
\* C16: correct payload under concurrent attach. Whatever the interleaving of
\* a resolve/reject on one thread with a then on another, a handler that then
\* invokes itself, having read a settled state, is given the settled payload,
\* never an unset one, and no derived instance whose source is Fulfilled is
\* Rejected with the engine's own error.
ConcurrentAttach ==
    /\ \A i \in DOMAIN log :
          log[i].by = "attach" =>
              /\ log[i].v # NoPayload
              /\ Len(calls[reg[log[i].d].p]) = 1 =>
                    log[i].v = Some(calls[reg[log[i].d].p][1].args)
    /\ \A d \in Derived :
          inst[reg[d].p].state = Fulfilled => inst[d].reason # Some(<<TypeErr>>)

\* ----------------------------------------------------------------- C17
\* C17: synchronous chain settlement (one thread, callbacks that return no
\* instance). A derived instance is never settled while its source is
\* Pending; between top-level calls it is Pending exactly when its source is;
\* and when the pass of a settling call has visited every handler, every
\* instance derived from the settled one while it was Pending is settled, so
\* that a whole chain is settled before the call on its head returns.
SyncChain ==
    \A d \in Derived :
        LET p == reg[d].p IN
        /\ inst[d].state # Pending => inst[p].state # Pending
        /\ Idle => (inst[d].state = Pending <=> inst[p].state = Pending)
        /\ (PassDone(p) /\ reg[d].at = Pending) => inst[d].state # Pending

\* C17 witness: the resolve of the head of a chain of two links, both attached
\* while Pending, is about to return and both links are settled
SyncChainWitness ==
    \E d, e \in Derived :
        /\ reg[e].p = d /\ reg[d].p \in roots
        /\ reg[d].at = Pending /\ reg[e].at = Pending
        /\ stack[1] # <<>>
        /\ stack[1][1].k = "settle" /\ stack[1][1].p = reg[d].p
        /\ PassDone(reg[d].p)
        /\ inst[d].state # Pending /\ inst[e].state # Pending

\* ----------------------------------------------------------------- C18
\* C18: all() result soundness (one thread). In every state the result of all
\* is Fulfilled only if every input is, and Rejected only if some input is;
\* completed never exceeds the number of inputs and counts the indices that
\* were assigned; and the sequence the result is Fulfilled with has one
\* element for each input and no hole.
AllSound ==
    \A a \in AllInsts :
        LET n == Len(promises[a]) IN
        /\ inst[a].state = Fulfilled =>
              \A i \in Indices(a) : inst[promises[a][i]].state = Fulfilled
        /\ inst[a].state = Rejected =>
              \E i \in Indices(a) : inst[promises[a][i]].state = Rejected
        /\ completed[a] <= n
        /\ completed[a] <= Cardinality({j \in DOMAIN result[a] : result[a][j] # Hole})
        /\ Len(result[a]) <= n
        /\ (inst[a].state = Fulfilled /\ ~ Storing(a)) =>
              /\ completed[a] = n
              /\ Len(inst[a].value[1][1]) = n
              /\ \A j \in 1 .. n : inst[a].value[1][1][j] # Hole

\* C18 witness: the array had a hole while the second input had completed and
\* the first had not, and the result is Fulfilled now with both indices filled
AllSoundWitness ==
    /\ Idle
    /\ \E a \in AllInsts :
        /\ Len(promises[a]) = 2
        /\ inst[a].state = Fulfilled
        /\ completed[a] = 2
        /\ \E i, j \in DOMAIN log :
             i < j /\ log[i].d = Links(a)[2] /\ log[j].d = Links(a)[1]

\* ----------------------------------------------------------------- C19
FetchInsts == {p \in Made : reg[p].ex \in FetchKinds}
\* the Thread request started for p has run to its end
WorkerDone(p) == started[p] >= 1 /\ ~ \E f \in OnStack : f.k = "worker" /\ f.p = p
\* the call of request for p has returned
RequestDone(p) == CtorDone(p) /\ ~ \E f \in OnStack : f.k = "request" /\ f.p = p

\* C19: producer contract of the transport. For every instance made by fetch,
\* request calls resolve or reject at most once in all. Without a url it has
\* called reject with the message when it returns, it starts no Thread, and
\* the instance is Rejected when fetch returns. With a url it starts one
\* Thread and calls neither itself; the Thread has made exactly one call,
\* resolve with the response or reject with the error, when it ends. The state
\* and payload of the instance are those of that one call, and it is Pending
\* before.
ProducerContract ==
    \A p \in FetchInsts :
        /\ Len(calls[p]) <= 1
        /\ started[p] <= 1
        /\ Len(writes[p]) <= Len(calls[p])
        /\ Len(calls[p]) = 1 =>
              /\ calls[p][1] \in {[st |-> Fulfilled, args |-> <<Content>>],
                                  [st |-> Rejected, args |-> <<ErrIO>>],
                                  [st |-> Rejected, args |-> <<ErrNoUrl>>]}
              /\ inst[p].state # Pending => inst[p].state = calls[p][1].st
              /\ (inst[p].state # Pending /\ ~ Storing(p)) =>
                    PayloadOf(p) = Some(calls[p][1].args)
        /\ reg[p].ex = "fetchNoUrl" =>
              /\ started[p] = 0
              /\ RequestDone(p) =>
                    /\ calls[p] = <<[st |-> Rejected, args |-> <<ErrNoUrl>>]>>
                    /\ inst[p].state = Rejected
                    /\ inst[p].reason = Some(<<ErrNoUrl>>)
        /\ reg[p].ex = "fetchUrl" =>
              /\ RequestDone(p) => started[p] = 1
              /\ started[p] = 0 => calls[p] = <<>>
              /\ WorkerDone(p) =>
                    /\ Len(calls[p]) = 1
                    /\ calls[p][1].args # <<ErrNoUrl>>
                    /\ inst[p].state = calls[p][1].st

\* the histories a call of request may leave: nothing yet; reject called by
\* request itself and no Thread; or one Thread, and then one call by it
DirectAllowed == {<<>>, <<"reject">>, <<"start">>, <<"start", "resolve">>,
                  <<"start", "reject">>}

\* C19: producer contract of the transport, for every call of request. The
\* calls fetch makes keep ProducerContract, and a call of request with the
\* user's own resolve and reject invokes at most one of them, at most once:
\* reject by request itself and no Thread without a url, else one Thread that
\* calls resolve or reject, never both.
RequestContract ==
    /\ ProducerContract
    /\ \A k \in DOMAIN direct : direct[k] \in DirectAllowed

\* ----------------------------------------------------------------- C20
\* a call of _resolve / _reject on p is running
Dispatching(p) == \E f \in OnStack : f.k = "settle" /\ f.p = p
\* the derived instances whose handlers are in the handler list of p
Stored(p) == {inst[p].handlers[i].d2 : i \in DOMAIN inst[p].handlers}

\* C20: handler storage. Every handler in the list of an instance was appended
\* by a then that read the state Pending, a then that read a settled state
\* stored none, and the list of a settled instance is empty whenever no
\* resolve / reject call on it is running (the settling call has cleared it).
HandlerStorage ==
    \A p \in Made :
        /\ \A d \in Stored(p) : reg[d].p = p /\ reg[d].at = Pending
        /\ \A d \in Derived :
              (reg[d].p = p /\ reg[d].at \in {Fulfilled, Rejected}) => d \notin Stored(p)
        /\ (inst[p].state # Pending /\ ~ Dispatching(p)) => inst[p].handlers = <<>>
====
